---- MODULE Spec2Model ----
(***************************************************************************)
(* A model of the structural-preservation engine of translation-evaluator: *)
(*   - compare_pandoc_asts        (src/src/struct_evaluator.py)            *)
(*   - check_reference_integrity  (src/src/struct_evaluator.py)            *)
(*   - extract_special_blocks     (src/src/document_parser.py, LaTeX scan) *)
(* Python values are tagged records, Python exceptions are a `raised` flag *)
(* on the result of the operation that raises.                             *)
(***************************************************************************)
EXTENDS Integers, Sequences, FiniteSets, TLC

VARIABLES
    pc,             \* which operation runs, and whether it has returned
    source_ast,     \* compare_pandoc_asts: first argument
    target_ast,     \* compare_pandoc_asts: second argument
    differences,    \* compare_pandoc_asts: the list `differences`
    raised,         \* compare_pandoc_asts: an exception left the call
    doc_format,     \* extract_special_blocks: the format tag
    lines,          \* extract_special_blocks: f.readlines()
    i,              \* extract_special_blocks: loop index of the LaTeX scan
    in_code,        \* extract_special_blocks: modal flag
    in_equation,    \* extract_special_blocks: modal flag
    current_block,  \* extract_special_blocks: buffered lines
    content,        \* extract_special_blocks: the inventory being built
    source_blocks,  \* check_reference_integrity: first argument
    target_blocks,  \* check_reference_integrity: second argument
    results,        \* check_reference_integrity: the list `results`
    source_files,   \* main: the source files found, with what the run meets
    file_index,     \* main: how many source files the loop has taken
    all_results     \* main: the list `all_results`

vars == <<pc, source_ast, target_ast, differences, raised, doc_format, lines, i, in_code,
          in_equation, current_block, content, source_blocks, target_blocks,
          results, source_files, file_index, all_results>>

cmpVars == <<source_ast, target_ast, differences, raised>>
scanVars == <<doc_format, lines, i, in_code, in_equation, current_block, content>>
refVars == <<source_blocks, target_blocks, results>>
batchVars == <<source_files, file_index, all_results>>

(***************************************************************************)
(* Bounds of the model.                                                    *)
(***************************************************************************)
\* longest generated child list of a depth-1 node
MaxChildren == 2
\* longest input file of the LaTeX scan, in lines
MaxLines == 3
\* longest reference list of an inventory
MaxRefs == 2

Min(a, b) == IF a < b THEN a ELSE b

(***************************************************************************)
(* Python values.  Every value is a record of the same four fields so that *)
(* any two values can be compared:                                         *)
(*   k  "none" | "str" | "int" | "list" | "dict"                           *)
(*   t  a dict's 't' entry ("" when the dict has no 't' key, for which     *)
(*      .get('t') is None)                                                 *)
(*   s  a str's characters (as numbers), or the one number of an int       *)
(*   l  a list's elements; for a dict, <<c>> when it has a 'c' key and     *)
(*      <<>> when it has none                                              *)
(* Python's == on JSON values is structural, as is = on these records.     *)
(***************************************************************************)
NoneV == [k |-> "none", t |-> "", s |-> <<>>, l |-> <<>>]
StrV(chars) == [k |-> "str", t |-> "", s |-> chars, l |-> <<>>]
IntV(n) == [k |-> "int", t |-> "", s |-> <<n>>, l |-> <<>>]
ListV(elems) == [k |-> "list", t |-> "", s |-> <<>>, l |-> elems]
Node(kind, c) == [k |-> "dict", t |-> kind, s |-> <<>>, l |-> <<c>>]
NodeNoC(kind) == [k |-> "dict", t |-> kind, s |-> <<>>, l |-> <<>>]

IsNone(v) == v.k = "none"
IsDict(v) == v.k = "dict"
IsList(v) == v.k = "list"
\* 'c' in node
HasC(n) == n.l # <<>>
\* node['c'], defined when HasC(n)
C(n) == n.l[1]
\* node.get('c')
GetC(n) == IF HasC(n) THEN C(n) ELSE NoneV
\* len(v) is defined for str, list and dict; TypeError otherwise
CanLen(v) == v.k \in {"str", "list", "dict"}
PyLen(v) ==
    CASE v.k = "str" -> Len(v.s)
      [] v.k = "list" -> Len(v.l)
      [] OTHER -> (IF v.t = "" THEN 0 ELSE 1) + Len(v.l)
\* v[j] for an integer j >= 0: a list element or a one-character str; IndexError
\* past the end, KeyError on a dict (JSON keys are strings), TypeError otherwise
CanIndex(v, j) ==
    \/ v.k = "list" /\ j < Len(v.l)
    \/ v.k = "str" /\ j < Len(v.s)
Index(v, j) == IF v.k = "list" THEN v.l[j + 1] ELSE StrV(<<v.s[j + 1]>>)
\* v['t']: KeyError or TypeError unless v is a dict with a 't' key
CanKeyT(v) == v.k = "dict" /\ v.t # ""

(***************************************************************************)
(* Difference records.  path is the list of child indices below "root"     *)
(* (the code's f"{path}.c[{i}]" appends one index); src/tgt carry the      *)
(* record's two value fields, st/tt its two kind fields.                   *)
(***************************************************************************)
Diff(type, path, src, tgt, st, tt) ==
    [type |-> type, path |-> path, src |-> src, tgt |-> tgt, st |-> st, tt |-> tt]

\* the outcome of running a piece of _compare_node: the records it appended
\* and whether an exception left it
Ok(ds) == [raised |-> FALSE, diffs |-> ds]
Raise == [raised |-> TRUE, diffs |-> <<>>]
\* r1 then r2: r2 does not run when r1 raised
Then(r1, r2) ==
    IF r1.raised THEN r1
    ELSE [raised |-> r2.raised, diffs |-> r1.diffs \o r2.diffs]

ExtraNodeSwapped(path, node2) == Diff("missing_node", path, node2, NoneV, "", "")
ExtraNode(path, node2) == Diff("extra_node", path, NoneV, node2, "", "")
MissingNode(path, node1) == Diff("missing_node", path, node1, NoneV, "", "")
TypeMismatch(path, node1, node2) ==
    Diff("type_mismatch", path, NoneV, NoneV, node1.t, node2.t)

\* lines 32-50: the rule of the node's kind
KindRules(path, node1, node2) ==
    LET nt == node1.t
        c1 == C(node1)
        c2 == C(node2)
    IN  CASE nt \in {"Str", "Code", "RawBlock"} ->
               IF nt \in {"Code", "RawBlock"} /\ GetC(node1) # GetC(node2)
               THEN Ok(<<Diff(IF nt = "Code" THEN "content_mismatch_Code"
                                             ELSE "content_mismatch_RawBlock",
                              path, GetC(node1), GetC(node2), "", "")>>)
               ELSE Ok(<<>>)
          [] nt = "Image" ->
               IF ~HasC(node1) \/ ~CanLen(c1) THEN Raise
               ELSE IF ~(PyLen(c1) > 1) THEN Ok(<<>>)
               ELSE IF ~HasC(node2) \/ ~CanLen(c2) THEN Raise
               ELSE IF ~(PyLen(c2) > 1) THEN Ok(<<>>)
               ELSE IF ~CanIndex(c1, 1) \/ ~CanIndex(c2, 1) THEN Raise
               ELSE IF Index(c1, 1) # Index(c2, 1)
               THEN Ok(<<Diff("image_path_mismatch", path,
                              Index(c1, 1), Index(c2, 1), "", "")>>)
               ELSE Ok(<<>>)
          [] nt \in {"Math", "DisplayMath", "InlineMath"} ->
               IF ~HasC(node1) \/ ~CanIndex(c1, 1) THEN Raise
               ELSE IF ~HasC(node2) \/ ~CanIndex(c2, 1) THEN Raise
               ELSE IF Index(c1, 1) # Index(c2, 1)
               THEN Ok(<<Diff("math_mismatch", path,
                              Index(c1, 1), Index(c2, 1), "", "")>>)
               ELSE Ok(<<>>)
          [] nt \in {"Link", "Citation"} ->
               IF ~HasC(node1) \/ ~CanIndex(c1, 2) THEN Raise
               ELSE IF ~HasC(node2) \/ ~CanIndex(c2, 2) THEN Raise
               ELSE Ok((IF Index(c1, 2) # Index(c2, 2)
                        THEN <<Diff("link_target_mismatch", path,
                                    Index(c1, 2), Index(c2, 2), "", "")>>
                        ELSE <<>>)
                       \o
                       (IF Index(c1, 0) # Index(c2, 0)
                        THEN <<Diff("citation_key_mismatch", path,
                                    Index(c1, 0), Index(c2, 0), "", "")>>
                        ELSE <<>>))
          [] OTHER -> Ok(<<>>)

\* lines 58-63: one leaf record per surplus child of the longer list
RECURSIVE SurplusFrom(_, _, _, _)
SurplusFrom(path, type, cs, j) ==
    IF j >= Len(cs) THEN <<>>
    ELSE <<IF type = "missing_child"
           THEN Diff(type, Append(path, j), cs[j + 1], NoneV, "", "")
           ELSE Diff(type, Append(path, j), NoneV, cs[j + 1], "", "")>>
         \o SurplusFrom(path, type, cs, j + 1)

SurplusOffByOne(path, cs1, cs2) ==
    LET min_len == Min(Len(cs1), Len(cs2))
    IN  IF Len(cs1) > Len(cs2) THEN SurplusFrom(path, "missing_child", cs1, min_len + 1)
        ELSE IF Len(cs2) > Len(cs1) THEN SurplusFrom(path, "extra_child", cs2, min_len + 1)
        ELSE <<>>
Surplus(path, cs1, cs2) ==
    LET min_len == Min(Len(cs1), Len(cs2))
    IN  IF Len(cs1) > Len(cs2) THEN SurplusFrom(path, "missing_child", cs1, min_len)
        ELSE IF Len(cs2) > Len(cs1) THEN SurplusFrom(path, "extra_child", cs2, min_len)
        ELSE <<>>

\* lines 69-72: the header level and list type checks, after the recursion
TrailingRules(path, node1, node2) ==
    LET nt == node1.t
        c1 == C(node1)
        c2 == C(node2)
        header ==
            IF nt # "Header" THEN Ok(<<>>)
            ELSE IF ~HasC(node1) \/ ~CanIndex(c1, 0) THEN Raise
            ELSE IF ~HasC(node2) \/ ~CanIndex(c2, 0) THEN Raise
            ELSE IF Index(c1, 0) # Index(c2, 0)
            THEN Ok(<<Diff("header_level_mismatch", path,
                           Index(c1, 0), Index(c2, 0), "", "")>>)
            ELSE Ok(<<>>)
        ListType(n) == Index(Index(C(n), 0), 0)
        CanListType(n) ==
            /\ HasC(n)
            /\ CanIndex(C(n), 0)
            /\ CanIndex(Index(C(n), 0), 0)
            /\ CanKeyT(ListType(n))
        list ==
            IF nt # "List" THEN Ok(<<>>)
            ELSE IF ~CanListType(node1) \/ ~CanListType(node2) THEN Raise
            ELSE IF ListType(node1).t # ListType(node2).t
            THEN Ok(<<Diff("list_type_mismatch", path, NoneV, NoneV,
                           ListType(node1).t, ListType(node2).t)>>)
            ELSE Ok(<<>>)
    IN  Then(header, list)

RECURSIVE CompareNode(_, _, _)
RECURSIVE ComparePairs(_, _, _, _)

\* lines 55-57: for i in range(min_len): _compare_node(f"{path}.c[{i}]", ...)
ComparePairs(path, cs1, cs2, j) ==
    IF j >= Min(Len(cs1), Len(cs2)) THEN Ok(<<>>)
    ELSE Then(CompareNode(Append(path, j), cs1[j + 1], cs2[j + 1]),
              ComparePairs(path, cs1, cs2, j + 1))

\* lines 53-66: recurse on two child lists, else compare two other contents
Children(path, node1, node2) ==
    IF HasC(node1) /\ IsList(C(node1)) /\ HasC(node2) /\ IsList(C(node2))
    THEN Then(ComparePairs(path, C(node1).l, C(node2).l, 0),
              Ok(Surplus(path, C(node1).l, C(node2).l)))
    ELSE IF HasC(node1) /\ HasC(node2) /\ C(node1) # C(node2)
    THEN Ok(<<Diff("attribute_mismatch_c", path, C(node1), C(node2), "", "")>>)
    ELSE Ok(<<>>)

\* lines 29-72: what _compare_node does for two nodes once their kinds are read
SameKind(path, node1, node2) ==
    Then(KindRules(path, node1, node2),
         Then(Children(path, node1, node2),
              TrailingRules(path, node1, node2)))

OnTypeMismatchNoReturn(path, node1, node2) ==
    Then(Ok(<<TypeMismatch(path, node1, node2)>>), SameKind(path, node1, node2))
\* lines 26-27: append the type_mismatch record and return
OnTypeMismatch(path, node1, node2) == Ok(<<TypeMismatch(path, node1, node2)>>)

\* lines 12-72: _compare_node
CompareNode(path, node1, node2) ==
    IF IsNone(node1) /\ IsNone(node2) THEN Ok(<<>>)
    ELSE IF IsNone(node1) THEN Ok(<<ExtraNode(path, node2)>>)
    ELSE IF IsNone(node2) THEN Ok(<<MissingNode(path, node1)>>)
    \* node1.get('t'), node2.get('t'): AttributeError on a str, an int or a list
    ELSE IF ~IsDict(node1) \/ ~IsDict(node2) THEN Raise
    ELSE IF node1.t # node2.t THEN OnTypeMismatch(path, node1, node2)
    ELSE SameKind(path, node1, node2)

\* lines 4-76: compare_pandoc_asts; "root" is the empty index list
compare_pandoc_asts(s, t) == CompareNode(<<>>, s, t)

(***************************************************************************)
(* The inputs of compare_pandoc_asts: trees as json.loads returns them.    *)
(* Characters: 1 is "a", 2 is "b".                                         *)
(***************************************************************************)
SA == StrV(<<1>>)
SB == StrV(<<2>>)
SAB == StrV(<<1, 2>>)
SBB == StrV(<<2, 2>>)
I1 == IntV(1)
I2 == IntV(2)

RECURSIVE SeqsUpTo(_, _)
\* the sequences over S of length 0..n
SeqsUpTo(S, n) ==
    IF n = 0 THEN {<<>>}
    ELSE LET shorter == SeqsUpTo(S, n - 1)
         IN  shorter \cup {Append(q, x) : q \in {r \in shorter : Len(r) = n - 1}, x \in S}

\* nodes with no content or a scalar content; "" is a dict with no 't' key,
\* as the document root pandoc emits ({"pandoc-api-version", "meta", "blocks"})
LeafKinds == {"Str", "Code", "RawBlock", "Image", "Math", "Link", "Header",
              "List", "Para", ""}
Leaves ==
    {NodeNoC(kind) : kind \in LeafKinds}
        \cup {Node(kind, c) : kind \in LeafKinds, c \in {SA, SB}}
        \cup {Node("Image", SAB), Node("Image", SBB), Node("Image", NoneV),
              Node("Math", SAB), Node("Math", SBB), Node("Header", I1),
              Node("Header", I2), Node("Str", NoneV)}

\* nodes whose content is a list of leaves and nulls
Elems == {NoneV, Node("Str", SA), Node("Str", SB), Node("Code", SA)}
ListKinds == {"Para", "Code", "Header", "Math"}
Depth1 == {Node(kind, ListV(cs)) : kind \in ListKinds, cs \in SeqsUpTo(Elems, MaxChildren)}

\* nodes with grandchildren
Elems2 == {Node("Str", SA),
           Node("Para", ListV(<<Node("Str", SA)>>)),
           Node("Para", ListV(<<Node("Str", SB), Node("Str", SA)>>)),
           Node("Code", ListV(<<Node("Str", SA)>>)),
           Node("Header", ListV(<<Node("Str", SA)>>)),
           Node("Header", ListV(<<Node("Str", SB)>>)),
           NoneV}
Depth2 == {Node("Para", ListV(cs)) : cs \in SeqsUpTo(Elems2, 2) \ {<<>>}}

\* nodes shaped as pandoc emits them: scalars and lists inside the content list
Attr == ListV(<<SA, ListV(<<>>), ListV(<<>>)>>)
PandocShaped ==
    {Node("Header", ListV(<<I1, Attr, ListV(<<Node("Str", SA)>>)>>)),
     Node("Header", ListV(<<I2, Attr, ListV(<<Node("Str", SA)>>)>>)),
     Node("Code", ListV(<<Attr, SA>>)),
     Node("Code", ListV(<<Attr, SB>>)),
     Node("Math", ListV(<<NodeNoC("InlineMath"), SA>>)),
     Node("Math", ListV(<<NodeNoC("InlineMath"), SB>>)),
     Node("Link", ListV(<<Node("Str", SA), Node("Str", SB), Node("Str", SA)>>)),
     Node("Link", ListV(<<Node("Str", SB), Node("Str", SB), Node("Str", SB)>>)),
     Node("Image", ListV(<<Node("Str", SA), Node("Str", SA)>>)),
     Node("Image", ListV(<<Node("Str", SA), Node("Str", SB)>>)),
     Node("List", ListV(<<ListV(<<NodeNoC("BulletList")>>)>>)),
     Node("Para", ListV(<<Node("Str", SA), Node("Image", SA)>>)),
     Node("Para", ListV(<<NoneV, NodeNoC("Image")>>))}

Trees == {NoneV} \cup Leaves \cup Depth1 \cup Depth2 \cup PandocShaped

(***************************************************************************)
(* compare_pandoc_asts as a two-step machine: called, then returned or     *)
(* raised.                                                                 *)
(***************************************************************************)
IdleCmp ==
    /\ source_ast = NoneV
    /\ target_ast = NoneV
    /\ differences = <<>>
    /\ raised = FALSE

\* lines 85-91: the inventory extract_special_blocks starts from
EmptyContent ==
    [code_blocks |-> <<>>, equations |-> <<>>, image_paths |-> <<>>,
     labels |-> <<>>, references |-> <<>>]

IdleScan ==
    /\ doc_format = "latex"
    /\ lines = <<>>
    /\ i = 0
    /\ in_code = FALSE
    /\ in_equation = FALSE
    /\ current_block = <<>>
    /\ content = EmptyContent

IdleRef ==
    /\ source_blocks = EmptyContent
    /\ target_blocks = EmptyContent
    /\ results = <<>>

IdleBatch ==
    /\ source_files = <<>>
    /\ file_index = 0
    /\ all_results = <<>>

InitCompare ==
    /\ pc = "compare"
    /\ source_ast \in Trees
    /\ target_ast \in Trees
    /\ differences = <<>>
    /\ raised = FALSE
    /\ IdleScan
    /\ IdleRef
    /\ IdleBatch

\* the call: differences holds what was appended when the call ended
Compare ==
    /\ pc = "compare"
    /\ LET r == compare_pandoc_asts(source_ast, target_ast)
       IN  /\ differences' = r.diffs
           /\ raised' = r.raised
    /\ pc' = "compared"
    /\ UNCHANGED <<source_ast, target_ast, scanVars, refVars, batchVars>>

NextCompare == Compare

SpecCompare == InitCompare /\ [][NextCompare]_vars

(***************************************************************************)
(* Vocabulary of the properties of compare_pandoc_asts.                    *)
(***************************************************************************)
Compared == pc = "compared"
Returned == pc = "compared" /\ ~raised

IsPrefix(p, q) == Len(p) <= Len(q) /\ SubSeq(q, 1, Len(p)) = p
IsProperPrefix(p, q) == Len(p) < Len(q) /\ SubSeq(q, 1, Len(p)) = p

\* both nodes are dicts of one kind whose contents are lists
ListPair(a, b) ==
    /\ IsDict(a) /\ IsDict(b) /\ a.t = b.t
    /\ HasC(a) /\ IsList(C(a)) /\ HasC(b) /\ IsList(C(b))

RECURSIVE VisitedPaths(_, _)
\* the paths of the node pairs a returning walk applies _compare_node to
VisitedPaths(a, b) ==
    {<<>>} \cup
    (IF ListPair(a, b)
     THEN UNION {{<<j - 1>> \o q : q \in VisitedPaths(C(a).l[j], C(b).l[j])} :
                 j \in 1..Min(Len(C(a).l), Len(C(b).l))}
     ELSE {})

RECURSIVE AtPath(_, _)
\* the node of a tree at a path that VisitedPaths holds
AtPath(n, p) == IF p = <<>> THEN n ELSE AtPath(C(n).l[p[1] + 1], Tail(p))

RECURSIVE ReplaceAt(_, _, _)
\* the tree n with the node at path p replaced by m
ReplaceAt(n, p, m) ==
    IF p = <<>> THEN m
    ELSE Node(n.t, ListV([C(n).l EXCEPT ![p[1] + 1] = ReplaceAt(@, Tail(p), m)]))

\* the records of the result at path p, and at or below p, in order
RecordsAt(p) == SelectSeq(differences, LAMBDA d : d.path = p)
RecordsUnder(p) == SelectSeq(differences, LAMBDA d : IsPrefix(p, d.path))

Visited == VisitedPaths(source_ast, target_ast)
SrcAt(p) == AtPath(source_ast, p)
TgtAt(p) == AtPath(target_ast, p)

\* a tree as pandoc emits it: the content shape follows from the kind
RECURSIVE WellFormed(_)
WellFormedList(v) == IsList(v) /\ \A j \in 1..Len(v.l) : WellFormed(v.l[j])
WellFormed(n) ==
    /\ IsDict(n)
    /\ HasC(n)
    /\ CASE n.t = "Str" -> C(n).k = "str"
         [] n.t = "Para" -> WellFormedList(C(n))
         [] n.t = "Header" ->
              /\ IsList(C(n)) /\ Len(C(n).l) = 3
              /\ C(n).l[1].k = "int" /\ C(n).l[2] = Attr /\ WellFormedList(C(n).l[3])
         [] n.t = "Code" ->
              /\ IsList(C(n)) /\ Len(C(n).l) = 2
              /\ C(n).l[1] = Attr /\ C(n).l[2].k = "str"
         [] n.t = "Math" ->
              /\ IsList(C(n)) /\ Len(C(n).l) = 2
              /\ C(n).l[1] = NodeNoC("InlineMath") /\ C(n).l[2].k = "str"
         [] OTHER -> FALSE

(***************************************************************************)
(* C1.  Reflexivity: for every well-formed document tree D,                *)
(* compare_pandoc_asts(D, D) returns an empty list.                        *)
(* Refuted: a Header, Code or Math node shaped as pandoc emits it holds    *)
(* scalars in its content list, and _compare_node raises on them.          *)
(***************************************************************************)
C1_Reflexive ==
    (Compared /\ source_ast = target_ast /\ WellFormed(source_ast))
        => (~raised /\ differences = <<>>)

(***************************************************************************)
(* C2.  Two Str nodes compared at a path whose texts differ yield no       *)
(* record for that node pair.                                              *)
(* Refuted: lines 64-66 emit attribute_mismatch_c for them.                *)
(***************************************************************************)
StrPair(a, b) ==
    /\ IsDict(a) /\ IsDict(b) /\ a.t = "Str" /\ b.t = "Str"
    /\ HasC(a) /\ HasC(b) /\ C(a).k = "str" /\ C(b).k = "str" /\ C(a) # C(b)

C2_NoRecordForStr ==
    Returned => \A p \in Visited : StrPair(SrcAt(p), TgtAt(p)) => RecordsAt(p) = <<>>

(***************************************************************************)
(* C3.  Two trees identical except for the content of one Code node yield  *)
(* exactly one record, content_mismatch_Code at that node's path.          *)
(* Stated for the calls that return and for a Code node whose content is   *)
(* its text; refuted there too: lines 64-66 add attribute_mismatch_c.      *)
(***************************************************************************)
CodePair(a, b) ==
    /\ IsDict(a) /\ IsDict(b) /\ a.t = "Code" /\ b.t = "Code"
    /\ HasC(a) /\ HasC(b) /\ C(a).k = "str" /\ C(b).k = "str" /\ C(a) # C(b)

DifferInOneCode(p) ==
    /\ CodePair(SrcAt(p), TgtAt(p))
    /\ target_ast = ReplaceAt(source_ast, p, TgtAt(p))

C3_OneCodeRecord ==
    Returned =>
        \A p \in Visited :
            DifferInOneCode(p) =>
                differences = <<Diff("content_mismatch_Code", p,
                                     C(SrcAt(p)), C(TgtAt(p)), "", "")>>

(***************************************************************************)
(* C4.  When _compare_node is applied to two present nodes of different    *)
(* kinds it emits exactly one type_mismatch record, with that path and     *)
(* both kinds, returns without raising, and emits nothing below the path.  *)
(***************************************************************************)
KindsDiffer(a, b) == IsDict(a) /\ IsDict(b) /\ a.t # b.t

C4_TypeMismatchStops ==
    /\ (Compared /\ KindsDiffer(source_ast, target_ast)) =>
           /\ ~raised
           /\ differences = <<Diff("type_mismatch", <<>>, NoneV, NoneV,
                                   source_ast.t, target_ast.t)>>
    /\ Returned =>
           \A p \in Visited :
               KindsDiffer(SrcAt(p), TgtAt(p)) =>
                   RecordsUnder(p) = <<Diff("type_mismatch", p, NoneV, NoneV,
                                            SrcAt(p).t, TgtAt(p).t)>>

\* a type mismatch below the root between two nodes that both have children
C4_Witness ==
    /\ Returned
    /\ \E p \in Visited :
           /\ p # <<>>
           /\ KindsDiffer(SrcAt(p), TgtAt(p))
           /\ HasC(SrcAt(p)) /\ IsList(C(SrcAt(p))) /\ C(SrcAt(p)).l # <<>>
           /\ HasC(TgtAt(p)) /\ IsList(C(TgtAt(p))) /\ C(TgtAt(p)).l # <<>>
           /\ C(SrcAt(p)) # C(TgtAt(p))

(***************************************************************************)
(* C5.  Antisymmetry: the missing_node records of compare(S, T) are the    *)
(* extra_node records of compare(T, S), same paths and same nodes, and the *)
(* other way round, whenever both calls return; a pair with exactly one    *)
(* node absent yields exactly one such record and nothing below its path.  *)
(***************************************************************************)
OneAbsent(a, b) == IsNone(a) # IsNone(b)

AbsentRecord(p, a, b) ==
    IF IsNone(a) THEN Diff("extra_node", p, NoneV, b, "", "")
    ELSE Diff("missing_node", p, a, NoneV, "", "")

Reverse == compare_pandoc_asts(target_ast, source_ast)

\* every record of type ta in ds has its mirror of type tb in es
Mirrored(ds, ta, es, tb) ==
    \A x \in 1..Len(ds) :
        ds[x].type = ta =>
            \E y \in 1..Len(es) :
                /\ es[y].type = tb
                /\ es[y].path = ds[x].path
                /\ es[y].src = ds[x].tgt
                /\ es[y].tgt = ds[x].src

SurplusRecord(p, a, b, j) ==
    IF Len(C(a).l) > Len(C(b).l)
    THEN Diff("missing_child", Append(p, j), C(a).l[j + 1], NoneV, "", "")
    ELSE Diff("extra_child", Append(p, j), NoneV, C(b).l[j + 1], "", "")

ChildListsCompared(p, a, b) ==
    LET m == Len(C(a).l)
        n == Len(C(b).l)
        lo == Min(m, n)
        hi == IF m > n THEN m ELSE n
        childTypes == {"missing_child", "extra_child"}
        surplus ==
            SelectSeq(differences,
                      LAMBDA d : d.type \in childTypes /\ Len(d.path) = Len(p) + 1
                                 /\ IsPrefix(p, d.path))
    IN  /\ \A j \in 0..(lo - 1) :
               RecordsUnder(Append(p, j))
                   = CompareNode(Append(p, j), C(a).l[j + 1], C(b).l[j + 1]).diffs
        /\ \A j \in lo..(hi - 1) :
               RecordsUnder(Append(p, j)) = <<SurplusRecord(p, a, b, j)>>
        /\ Len(surplus) = hi - lo
        /\ \A x \in 1..Len(surplus) : surplus[x] = SurplusRecord(p, a, b, lo + x - 1)

C6_ChildLists ==
    Returned =>
        \A p \in Visited :
            ListPair(SrcAt(p), TgtAt(p)) => ChildListsCompared(p, SrcAt(p), TgtAt(p))

\* the target's list is two longer than the source's, and its surplus children
\* have children of their own
C6_Witness ==
    /\ Returned
    /\ ListPair(source_ast, target_ast)
    /\ Len(C(target_ast).l) = Len(C(source_ast).l) + 2
    /\ \A j \in 1..Len(C(target_ast).l) :
           j > Len(C(source_ast).l) =>
               /\ ListPair(C(target_ast).l[j], C(target_ast).l[j])
               /\ C(C(target_ast).l[j]).l # <<>>
    /\ Len(differences) = 2

(***************************************************************************)
(* C7.  The result is in pre-order: a node's own records come before the   *)
(* records of its children and descendants, and an earlier sibling's       *)
(* records before a later sibling's.                                       *)
(* Refuted: header_level_mismatch and list_type_mismatch are appended      *)
(* after the recursion into the children (lines 69-72).                    *)
(***************************************************************************)
\* p is at or before q in pre-order
PreOrderLeq(p, q) ==
    \/ IsPrefix(p, q)
    \/ \E j \in 1..Min(Len(p), Len(q)) :
           /\ SubSeq(p, 1, j - 1) = SubSeq(q, 1, j - 1)
           /\ p[j] < q[j]

C7_PreOrder ==
    Returned =>
        \A x, y \in 1..Len(differences) :
            x < y => PreOrderLeq(differences[x].path, differences[y].path)

(***************************************************************************)
(* extract_special_blocks, the LaTeX scan (src/src/document_parser.py).    *)
(* A file is a list of lines drawn from the texts below; what each regex   *)
(* of lines 96-103 finds in a line is tabulated from the regex and the     *)
(* text.  A block ("".join(current_block)) is kept as its list of lines.   *)
(***************************************************************************)
LineText == "Some text."
LineCodeStart == "\\begin{lstlisting}"
LineCodeEnd == "\\end{lstlisting}"
LineCodeOneLine == "\\begin{verbatim}x\\end{verbatim}"
LineEqStart == "\\begin{equation}"
LineEqStartLabel == "\\begin{equation}\\label{a}"
LineEqEnd == "\\end{equation}"
LineLabel == "\\section{A}\\label{a}"
LineRef == "See \\ref{a} and \\cite{b}."
LineMath == "Let $x$ be."
LineImage == "\\includegraphics[width=1cm]{f.png}"

\* a line of three backquotes (a character a TLA+ string cannot hold)
LineFence == "<three backquotes>"
LineMathFence == "$$"
LineMdImage == "![a](f.png)"

LatexLines ==
    {LineText, LineCodeStart, LineCodeEnd, LineCodeOneLine, LineEqStart,
     LineEqStartLabel, LineEqEnd, LineLabel, LineRef, LineMath, LineImage}
MarkdownLines == {LineText, LineFence, LineMathFence, LineMath, LineMdImage}
\* the lines of a file that goes with a format tag
LinesOf(format) ==
    CASE format = "latex" -> LatexLines
      [] format \in {"markdown", "myst"} -> MarkdownLines
      [] OTHER -> LatexLines \cup MarkdownLines

\* line 96: code_block_start.search(line)
CodeBlockStart(line) == line \in {LineCodeStart, LineCodeOneLine}
\* line 97: code_block_end.search(line)
CodeBlockEnd(line) == line \in {LineCodeEnd, LineCodeOneLine}
\* line 98: equation_block_start.search(line)
EquationBlockStart(line) == line \in {LineEqStart, LineEqStartLabel}
\* line 99: equation_block_end.search(line)
EquationBlockEnd(line) == line = LineEqEnd
\* line 100 and 131: f"${match.group(1)}$" for each inline_math match
InlineMath(line) == IF line = LineMath THEN <<(<<"$x$">>)>> ELSE <<>>
\* line 101: the image_path matches' group 1
ImagePaths(line) == IF line = LineImage THEN <<"f.png">> ELSE <<>>
\* line 102: the label_pattern matches' group 1
LabelKeys(line) == IF line \in {LineLabel, LineEqStartLabel} THEN <<"a">> ELSE <<>>
\* lines 103 and 138: the first non-None group of each ref_pattern match
RefKeys(line) == IF line = LineRef THEN <<"a", "b">> ELSE <<>>

\* content['labels'][key] = idx on a dict kept as its list of items: a new
\* key is appended, a known key keeps its place and takes the new value
SetLabel(labels, key, idx) ==
    IF \E j \in 1..Len(labels) : labels[j].key = key
    THEN [j \in 1..Len(labels) |->
              IF labels[j].key = key THEN [key |-> key, line |-> idx] ELSE labels[j]]
    ELSE Append(labels, [key |-> key, line |-> idx])

RECURSIVE SetLabels(_, _, _)
\* lines 134-135
SetLabels(labels, keys, idx) ==
    IF keys = <<>> THEN labels
    ELSE SetLabels(SetLabel(labels, Head(keys), idx), Tail(keys), idx)

\* lines 136-140; `if ref_key` drops an empty key
AddReferences(refs, keys, idx) ==
    refs \o [j \in 1..Len(SelectSeq(keys, LAMBDA k : k # "")) |->
                 [key |-> SelectSeq(keys, LAMBDA k : k # "")[j], line |-> idx]]

\* lines 129-140: a line outside both blocks
NormalLine(c, line, idx) ==
    [c EXCEPT !.equations = @ \o InlineMath(line),
              !.image_paths = @ \o ImagePaths(line),
              !.labels = SetLabels(@, LabelKeys(line), idx),
              !.references = AddReferences(@, RefKeys(line), idx)]

RECURSIVE FencedBlocks(_, _, _, _)
\* the matches of a DOTALL pattern fence.*?fence in "".join(lines), from
\* line j on: each runs from a line holding the fence to the next such line
\* (open is the line of the pending opening fence, 0 when there is none)
FencedBlocks(fence, ls, j, open) ==
    IF j > Len(ls) THEN <<>>
    ELSE IF ls[j] = fence
    THEN IF open = 0 THEN FencedBlocks(fence, ls, j + 1, j)
         ELSE <<SubSeq(ls, open, j)>> \o FencedBlocks(fence, ls, j + 1, 0)
    ELSE FencedBlocks(fence, ls, j + 1, open)

\* line 144 and 150: code_block_pattern.findall(text_content)
MarkdownCodeBlocks(ls) == FencedBlocks(LineFence, ls, 1, 0)
\* line 145 and 151: math_block_pattern.findall(text_content)
MarkdownMathBlocks(ls) == FencedBlocks(LineMathFence, ls, 1, 0)
\* line 146: what inline_math_pattern.findall finds in one line (group 1, so
\* without the dollars; "$$" matches with an empty group; . stops at \n)
MarkdownInlineMathIn(line) ==
    IF line = LineMath THEN <<(<<"x">>)>>
    ELSE IF line = LineMathFence THEN <<(<<"">>)>>
    ELSE <<>>
\* line 147: what image_pattern.findall finds in one line (group 1)
MarkdownImagesIn(line) == IF line = LineMdImage THEN <<"f.png">> ELSE <<>>

RECURSIVE MarkdownInlineMath(_)
\* line 152: inline_math_pattern.findall(text_content), line after line
MarkdownInlineMath(ls) ==
    IF ls = <<>> THEN <<>>
    ELSE MarkdownInlineMathIn(Head(ls)) \o MarkdownInlineMath(Tail(ls))

RECURSIVE MarkdownImages(_)
\* line 153: image_pattern.findall(text_content), line after line
MarkdownImages(ls) ==
    IF ls = <<>> THEN <<>>
    ELSE MarkdownImagesIn(Head(ls)) \o MarkdownImages(Tail(ls))

\* lines 149-153
MarkdownContent(c, ls) ==
    [c EXCEPT !.code_blocks = @ \o MarkdownCodeBlocks(ls),
              !.equations = (@ \o MarkdownMathBlocks(ls)) \o MarkdownInlineMath(ls),
              !.image_paths = @ \o MarkdownImages(ls)]

\* the tags Init draws: the three the function knows and two it does not
Formats == {"latex", "markdown", "myst", "html", "LaTeX"}

InitScan ==
    /\ pc = "extract"
    /\ doc_format \in Formats
    /\ lines \in SeqsUpTo(LinesOf(doc_format), MaxLines)
    /\ i = 0
    /\ in_code = FALSE
    /\ in_equation = FALSE
    /\ current_block = <<>>
    /\ content = EmptyContent
    /\ IdleCmp
    /\ IdleRef
    /\ IdleBatch

ExtractScanningAnyFormat ==
    /\ pc = "extract"
    /\ pc' = IF doc_format \in {"markdown", "myst"} THEN "markdown" ELSE "scan"
    /\ UNCHANGED <<cmpVars, scanVars, refVars, batchVars>>
\* lines 85-95 and 142: the empty inventory, the file read, the dispatch on
\* the tag; a tag of neither branch goes straight to the return of line 156
Extract ==
    /\ pc = "extract"
    /\ pc' = CASE doc_format = "latex" -> "scan"
              [] doc_format \in {"markdown", "myst"} -> "markdown"
              [] OTHER -> "extracted"
    /\ UNCHANGED <<cmpVars, scanVars, refVars, batchVars>>

\* lines 142-156: the markdown/myst branch and the return
ExtractMarkdown ==
    /\ pc = "markdown"
    /\ content' = MarkdownContent(content, lines)
    /\ pc' = "extracted"
    /\ UNCHANGED <<doc_format, lines, i, in_code, in_equation, current_block,
                   cmpVars, refVars, batchVars>>

ScanLineLabelsInBlocks ==
    /\ pc = "scan"
    /\ i < Len(lines)
    /\ LET line == lines[i + 1]
       IN  IF CodeBlockStart(line)
           THEN /\ in_code' = TRUE
                /\ current_block' = <<line>>
                /\ UNCHANGED <<in_equation, content>>
           ELSE IF CodeBlockEnd(line) /\ in_code
           THEN /\ in_code' = FALSE
                /\ content' = [content EXCEPT
                                   !.code_blocks = Append(@, Append(current_block, line))]
                /\ current_block' = <<>>
                /\ UNCHANGED in_equation
           ELSE IF EquationBlockStart(line)
           THEN /\ in_equation' = TRUE
                /\ current_block' = <<line>>
                /\ content' = [content EXCEPT !.labels = SetLabels(@, LabelKeys(line), i)]
                /\ UNCHANGED in_code
           ELSE IF EquationBlockEnd(line) /\ in_equation
           THEN /\ in_equation' = FALSE
                /\ content' = [content EXCEPT
                                   !.equations = Append(@, Append(current_block, line))]
                /\ current_block' = <<>>
                /\ UNCHANGED in_code
           ELSE IF in_code \/ in_equation
           THEN /\ current_block' = Append(current_block, line)
                /\ UNCHANGED <<in_code, in_equation, content>>
           ELSE /\ content' = NormalLine(content, line, i)
                /\ UNCHANGED <<in_code, in_equation, current_block>>
    /\ i' = i + 1
    /\ UNCHANGED <<pc, doc_format, lines, cmpVars, refVars, batchVars>>
\* lines 109-140: one iteration of the loop over the lines
ScanLine ==
    /\ pc = "scan"
    /\ i < Len(lines)
    /\ LET line == lines[i + 1]
       IN  IF CodeBlockStart(line)
           THEN /\ in_code' = TRUE
                /\ current_block' = <<line>>
                /\ UNCHANGED <<in_equation, content>>
           ELSE IF CodeBlockEnd(line) /\ in_code
           THEN /\ in_code' = FALSE
                /\ content' = [content EXCEPT
                                   !.code_blocks = Append(@, Append(current_block, line))]
                /\ current_block' = <<>>
                /\ UNCHANGED in_equation
           ELSE IF EquationBlockStart(line)
           THEN /\ in_equation' = TRUE
                /\ current_block' = <<line>>
                /\ UNCHANGED <<in_code, content>>
           ELSE IF EquationBlockEnd(line) /\ in_equation
           THEN /\ in_equation' = FALSE
                /\ content' = [content EXCEPT
                                   !.equations = Append(@, Append(current_block, line))]
                /\ current_block' = <<>>
                /\ UNCHANGED in_code
           ELSE IF in_code \/ in_equation
           THEN /\ current_block' = Append(current_block, line)
                /\ UNCHANGED <<in_code, in_equation, content>>
           ELSE /\ content' = NormalLine(content, line, i)
                /\ UNCHANGED <<in_code, in_equation, current_block>>
    /\ i' = i + 1
    /\ UNCHANGED <<pc, doc_format, lines, cmpVars, refVars, batchVars>>

ReturnFlushing ==
    /\ pc = "scan"
    /\ i = Len(lines)
    /\ pc' = "extracted"
    /\ content' = IF in_code
                  THEN [content EXCEPT !.code_blocks = Append(@, current_block)]
                  ELSE IF in_equation
                  THEN [content EXCEPT !.equations = Append(@, current_block)]
                  ELSE content
    /\ UNCHANGED <<doc_format, lines, i, in_code, in_equation, current_block,
                   cmpVars, refVars, batchVars>>
\* line 156: the loop is over and content is returned as it stands
Return ==
    /\ pc = "scan"
    /\ i = Len(lines)
    /\ pc' = "extracted"
    /\ UNCHANGED <<cmpVars, scanVars, refVars, batchVars>>

NextScan == Extract \/ ExtractMarkdown \/ ScanLine \/ Return

SpecScan == InitScan /\ [][NextScan]_vars

(***************************************************************************)
(* C8.  In the LaTeX scan in_code and in_equation are never both true.     *)
(* Refuted: lines 110-112 set in_code on a code-block opening without      *)
(* looking at in_equation (and lines 118-120 set in_equation on an         *)
(* equation opening inside a code block only if no code delimiter matched).*)
(***************************************************************************)
C8_MutuallyExclusive == ~(in_code /\ in_equation)

(***************************************************************************)
(* C9.  An opened block that is not closed before the end of the input     *)
(* adds no entry: at the return every entry of code_blocks ends with a     *)
(* line holding a code-block closing delimiter, every block entry of       *)
(* equations with one holding an equation closing delimiter, there are no  *)
(* more entries than such lines, and the lines still buffered are in no    *)
(* collection.                                                             *)
(***************************************************************************)
Extracted == pc = "extracted" /\ doc_format = "latex"

Last(q) == q[Len(q)]
CountLines(P(_)) == Cardinality({j \in 1..Len(lines) : P(lines[j])})
IsInlineMath(entry) == entry = <<"$x$">>
BlockEquations == SelectSeq(content.equations, LAMBDA e : ~IsInlineMath(e))

C9_UnterminatedDropped ==
    Extracted =>
        /\ \A j \in 1..Len(content.code_blocks) :
               /\ content.code_blocks[j] # <<>>
               /\ CodeBlockEnd(Last(content.code_blocks[j]))
        /\ \A j \in 1..Len(BlockEquations) :
               /\ BlockEquations[j] # <<>>
               /\ EquationBlockEnd(Last(BlockEquations[j]))
        /\ Len(content.code_blocks) <= CountLines(CodeBlockEnd)
        /\ Len(BlockEquations) <= CountLines(EquationBlockEnd)
        /\ (CountLines(CodeBlockEnd) = 0 => content.code_blocks = <<>>)
        /\ (CountLines(EquationBlockEnd) = 0 => BlockEquations = <<>>)

\* the input opens a code block, buffers lines and ends without closing it
C9_Witness ==
    /\ Extracted
    /\ in_code
    /\ ~in_equation
    /\ Len(current_block) >= 2
    /\ lines[1] = LineCodeStart
    /\ content.code_blocks = <<>>
    /\ content.equations = <<>>

(***************************************************************************)
(* check_reference_integrity (src/src/struct_evaluator.py, lines 107-146). *)
(* An inventory's labels dict is its list of items (key, line), its        *)
(* references the list of {key, line} dicts.                               *)
(***************************************************************************)
LabelKeySet == {"a", "b"}
LineNumbers == {0, 1}

\* the label dicts over LabelKeySet, one insertion order for each key set
LabelDicts ==
    {<<>>}
        \cup {<<[key |-> k, line |-> n]>> : k \in LabelKeySet, n \in LineNumbers}
        \cup {<<[key |-> "a", line |-> m], [key |-> "b", line |-> n]>> :
                  m \in LineNumbers, n \in LineNumbers}

\* the reference lists, in the order of their lines as the scan appends them
ReferenceLists ==
    {r \in SeqsUpTo([key : LabelKeySet, line : LineNumbers], MaxRefs) :
         \A j \in 1..(Len(r) - 1) : r[j].line <= r[j + 1].line}

Inventories ==
    {[EmptyContent EXCEPT !.labels = ls, !.references = rs] :
         ls \in LabelDicts, rs \in ReferenceLists}

\* set(blocks['labels'].keys())
KeySet(blocks) == {blocks.labels[j].key : j \in 1..Len(blocks.labels)}
\* [ref['key'] for ref in blocks['references']]
RefKeyList(blocks) == [j \in 1..Len(blocks.references) |-> blocks.references[j].key]

\* list(S) for a set S: its elements once each, in an order Python chooses
Orders(S) == {q \in [1..Cardinality(S) -> S] : {q[j] : j \in DOMAIN q} = S}

\* one issue record; the fields a type does not carry hold "" or -1
Issue(type) ==
    [type |-> type, labels |-> <<>>, source_count |-> -1, target_count |-> -1,
     index |-> -1, source_key |-> "", target_key |-> "", key |-> "", line |-> -1]

MissingLabelsByItems(sb, tb) ==
    {sb.labels[j].key : j \in {x \in 1..Len(sb.labels) :
                                   \A y \in 1..Len(tb.labels) : tb.labels[y] # sb.labels[x]}}
\* line 119: source_label_keys - target_label_keys
MissingLabels(sb, tb) == KeySet(sb) \ KeySet(tb)
\* line 120: target_label_keys - source_label_keys
ExtraLabels(sb, tb) == KeySet(tb) \ KeySet(sb)

\* lines 122-125; missing and extra are the two lists list(...) built
LabelIssues(missing, extra) ==
    (IF missing # <<>> THEN <<[Issue("missing_labels") EXCEPT !.labels = missing]>>
     ELSE <<>>)
    \o
    (IF extra # <<>> THEN <<[Issue("extra_labels") EXCEPT !.labels = extra]>>
     ELSE <<>>)

\* lines 131-133
CountIssues(s_keys, t_keys) ==
    IF Len(s_keys) # Len(t_keys)
    THEN <<[Issue("reference_count_mismatch") EXCEPT
                !.source_count = Len(s_keys), !.target_count = Len(t_keys)]>>
    ELSE <<>>

RECURSIVE PositionIssuesUnordered(_, _, _)
PositionIssuesUnordered(s_keys, t_keys, j) ==
    IF j >= Len(s_keys) THEN <<>>
    ELSE (IF j < Len(t_keys) /\ \A y \in 1..Len(t_keys) : t_keys[y] # s_keys[j + 1]
          THEN <<[Issue("reference_key_mismatch") EXCEPT
                      !.index = j, !.source_key = s_keys[j + 1],
                      !.target_key = t_keys[j + 1]]>>
          ELSE IF j >= Len(t_keys)
          THEN <<[Issue("missing_reference_in_target") EXCEPT
                      !.source_key = s_keys[j + 1]]>>
          ELSE <<>>)
         \o PositionIssuesUnordered(s_keys, t_keys, j + 1)

RECURSIVE PositionIssues(_, _, _)
\* lines 135-139: for i, s_ref_key in enumerate(source_ref_keys), from index j
PositionIssues(s_keys, t_keys, j) ==
    IF j >= Len(s_keys) THEN <<>>
    ELSE (IF j < Len(t_keys) /\ s_keys[j + 1] # t_keys[j + 1]
          THEN <<[Issue("reference_key_mismatch") EXCEPT
                      !.index = j, !.source_key = s_keys[j + 1],
                      !.target_key = t_keys[j + 1]]>>
          ELSE IF j >= Len(t_keys)
          THEN <<[Issue("missing_reference_in_target") EXCEPT
                      !.source_key = s_keys[j + 1]]>>
          ELSE <<>>)
         \o PositionIssues(s_keys, t_keys, j + 1)

RECURSIVE DanglingIssues(_, _, _)
\* lines 142-144: for ref in target_blocks['references'], from index j
DanglingIssues(refs, label_keys, j) ==
    IF j >= Len(refs) THEN <<>>
    ELSE (IF refs[j + 1].key \notin label_keys
          THEN <<[Issue("dangling_reference") EXCEPT
                      !.key = refs[j + 1].key, !.line = refs[j + 1].line]>>
          ELSE <<>>)
         \o DanglingIssues(refs, label_keys, j + 1)

check_reference_integrity_CountFirst(sb, tb, missing, extra) ==
    LabelIssues(missing, extra)
        \o (IF Len(RefKeyList(sb)) # Len(RefKeyList(tb))
            THEN CountIssues(RefKeyList(sb), RefKeyList(tb))
            ELSE PositionIssues(RefKeyList(sb), RefKeyList(tb), 0))
        \o DanglingIssues(tb.references, KeySet(tb), 0)

check_reference_integrity_SourceLabels(sb, tb, missing, extra) ==
    LabelIssues(missing, extra)
        \o CountIssues(RefKeyList(sb), RefKeyList(tb))
        \o PositionIssues(RefKeyList(sb), RefKeyList(tb), 0)
        \o DanglingIssues(tb.references, KeySet(sb), 0)

\* lines 107-146, given the two lists that list(set) built at lines 119-120
check_reference_integrity(sb, tb, missing, extra) ==
    LabelIssues(missing, extra)
        \o CountIssues(RefKeyList(sb), RefKeyList(tb))
        \o PositionIssues(RefKeyList(sb), RefKeyList(tb), 0)
        \o DanglingIssues(tb.references, KeySet(tb), 0)

InitRefs ==
    /\ pc = "check_refs"
    /\ source_blocks \in Inventories
    /\ target_blocks \in Inventories
    /\ results = <<>>
    /\ IdleCmp
    /\ IdleScan
    /\ IdleBatch

\* the call; the order of a list built from a set is Python's choice
CheckReferenceIntegrity ==
    /\ pc = "check_refs"
    /\ \E missing \in Orders(MissingLabels(source_blocks, target_blocks)),
          extra \in Orders(ExtraLabels(source_blocks, target_blocks)) :
           results' = check_reference_integrity(source_blocks, target_blocks,
                                                missing, extra)
    /\ pc' = "refs_checked"
    /\ UNCHANGED <<source_blocks, target_blocks, cmpVars, scanVars, batchVars>>

NextRefs == CheckReferenceIntegrity

SpecRefs == InitRefs /\ [][NextRefs]_vars

(***************************************************************************)
(* C10.  check_reference_integrity emits a missing_labels record iff the   *)
(* source has label keys the target lacks, and the record lists exactly    *)
(* those keys; likewise extra_labels for the keys only the target has; the *)
(* line numbers of the labels do not influence the result.                 *)
(***************************************************************************)
RefsChecked == pc = "refs_checked"

IssuesOfType(type) == SelectSeq(results, LAMBDA r : r.type = type)
Elements(q) == {q[j] : j \in DOMAIN q}

\* the records of one label type are: none when the difference is empty, else
\* one record listing each key of the difference once
LabelRecordIs(type, difference) ==
    IF difference = {} THEN IssuesOfType(type) = <<>>
    ELSE /\ Len(IssuesOfType(type)) = 1
         /\ Elements(IssuesOfType(type)[1].labels) = difference
         /\ Len(IssuesOfType(type)[1].labels) = Cardinality(difference)

\* an inventory with every label moved to line 0
LinesErased(blocks) ==
    [blocks EXCEPT !.labels = [j \in 1..Len(blocks.labels) |->
                                   [key |-> blocks.labels[j].key, line |-> 0]]]

C10_LabelKeyDifferences ==
    RefsChecked =>
        /\ LabelRecordIs("missing_labels",
                         {k \in LabelKeySet :
                              /\ \E j \in 1..Len(source_blocks.labels) :
                                     source_blocks.labels[j].key = k
                              /\ \A j \in 1..Len(target_blocks.labels) :
                                     target_blocks.labels[j].key # k})
        /\ LabelRecordIs("extra_labels",
                         {k \in LabelKeySet :
                              /\ \E j \in 1..Len(target_blocks.labels) :
                                     target_blocks.labels[j].key = k
                              /\ \A j \in 1..Len(source_blocks.labels) :
                                     source_blocks.labels[j].key # k})
        /\ \E missing \in Orders(MissingLabels(LinesErased(source_blocks),
                                               LinesErased(target_blocks))),
              extra \in Orders(ExtraLabels(LinesErased(source_blocks),
                                           LinesErased(target_blocks))) :
               results = check_reference_integrity(LinesErased(source_blocks),
                                                   LinesErased(target_blocks),
                                                   missing, extra)

\* the source has labels a and b, the target only a, on another line
C10_Witness ==
    /\ RefsChecked
    /\ source_blocks.labels = <<[key |-> "a", line |-> 0], [key |-> "b", line |-> 1]>>
    /\ target_blocks.labels = <<[key |-> "a", line |-> 1]>>
    /\ IssuesOfType("missing_labels")
           = <<[Issue("missing_labels") EXCEPT !.labels = <<"b">>]>>
    /\ IssuesOfType("extra_labels") = <<>>

(***************************************************************************)
(* C11.  check_reference_integrity emits exactly one                       *)
(* reference_count_mismatch record, carrying both lengths, iff the two     *)
(* reference sequences differ in length, and the per-position records      *)
(* (reference_key_mismatch, missing_reference_in_target) are those of the  *)
(* two sequences whether or not the count record is emitted.               *)
(***************************************************************************)
SourceRefs == source_blocks.references
TargetRefs == target_blocks.references

\* the indices 0..n-1 of a sequence of length n that satisfy P, ascending
RECURSIVE IndicesWhere(_, _, _)
IndicesWhere(P(_), j, n) ==
    IF j >= n THEN <<>>
    ELSE (IF P(j) THEN <<j>> ELSE <<>>) \o IndicesWhere(P, j + 1, n)

IsPositional(r) ==
    r.type \in {"reference_key_mismatch", "missing_reference_in_target"}
PositionalRecords == SelectSeq(results, IsPositional)

\* index j calls for a record: the keys at j differ, or the target has no j
KeysDifferAt(j) == j < Len(TargetRefs) /\ SourceRefs[j + 1].key # TargetRefs[j + 1].key
BeyondTarget(j) == j >= Len(TargetRefs)
ReportedIndices ==
    IndicesWhere(LAMBDA j : KeysDifferAt(j) \/ BeyondTarget(j), 0, Len(SourceRefs))

CountRecord ==
    [Issue("reference_count_mismatch") EXCEPT
         !.source_count = Len(SourceRefs), !.target_count = Len(TargetRefs)]

C11_CountDoesNotSuppress ==
    RefsChecked =>
        /\ IssuesOfType("reference_count_mismatch")
               = (IF Len(SourceRefs) # Len(TargetRefs) THEN <<CountRecord>> ELSE <<>>)
        /\ Len(PositionalRecords) = Len(ReportedIndices)
        /\ \A n \in 1..Len(ReportedIndices) :
               LET j == ReportedIndices[n]
               IN  IF BeyondTarget(j)
                   THEN /\ PositionalRecords[n].type = "missing_reference_in_target"
                        /\ PositionalRecords[n].source_key = SourceRefs[j + 1].key
                   ELSE /\ PositionalRecords[n].type = "reference_key_mismatch"
                        /\ PositionalRecords[n].index = j

\* lengths 2 and 1 with different first keys: the count record, a key
\* mismatch at 0 and a missing reference for index 1
C11_Witness ==
    /\ RefsChecked
    /\ Len(SourceRefs) = 2 /\ Len(TargetRefs) = 1
    /\ SourceRefs[1].key # TargetRefs[1].key
    /\ IssuesOfType("reference_count_mismatch") = <<CountRecord>>
    /\ Len(IssuesOfType("reference_key_mismatch")) = 1
    /\ Len(IssuesOfType("missing_reference_in_target")) = 1

(***************************************************************************)
(* C12.  For every index i below the shorter reference sequence's length a *)
(* reference_key_mismatch record (index i, both keys) is emitted iff the   *)
(* keys at i differ, and then once; for every source index at or beyond    *)
(* the target's length one missing_reference_in_target record is emitted,  *)
(* with that source key.  [a,b] against [b,a] gives two key mismatches and *)
(* no count mismatch.                                                      *)
(***************************************************************************)
KeyMismatchRecord(j) ==
    [Issue("reference_key_mismatch") EXCEPT
         !.index = j, !.source_key = SourceRefs[j + 1].key,
         !.target_key = TargetRefs[j + 1].key]

Occurrences(q, x) == Cardinality({n \in 1..Len(q) : q[n] = x})

C12_PositionalCheck ==
    RefsChecked =>
        /\ \A j \in 0..(Min(Len(SourceRefs), Len(TargetRefs)) - 1) :
               /\ Occurrences(results, KeyMismatchRecord(j))
                      = (IF SourceRefs[j + 1].key # TargetRefs[j + 1].key THEN 1 ELSE 0)
               /\ \A n \in 1..Len(results) :
                      (results[n].type = "reference_key_mismatch" /\ results[n].index = j)
                          => results[n] = KeyMismatchRecord(j)
        /\ \A n \in 1..Len(results) :
               results[n].type = "reference_key_mismatch"
                   => results[n].index \in 0..(Min(Len(SourceRefs), Len(TargetRefs)) - 1)
        /\ IssuesOfType("missing_reference_in_target")
               = [n \in 1..(IF Len(SourceRefs) > Len(TargetRefs)
                            THEN Len(SourceRefs) - Len(TargetRefs) ELSE 0) |->
                      [Issue("missing_reference_in_target") EXCEPT
                           !.source_key = SourceRefs[Len(TargetRefs) + n].key]]

\* the references a, b against b, a
C12_Witness ==
    /\ RefsChecked
    /\ RefKeyList(source_blocks) = <<"a", "b">>
    /\ RefKeyList(target_blocks) = <<"b", "a">>
    /\ IssuesOfType("reference_key_mismatch")
           = <<KeyMismatchRecord(0), KeyMismatchRecord(1)>>
    /\ IssuesOfType("reference_count_mismatch") = <<>>

(***************************************************************************)
(* C13.  The dangling_reference records depend only on the target          *)
(* inventory: they are, in order, one record (key, line) per target        *)
(* reference whose key is no key of the target's labels, and any other     *)
(* source inventory gives the same records.                                *)
(***************************************************************************)
TargetLabelKeys == {target_blocks.labels[j].key : j \in 1..Len(target_blocks.labels)}
IsDangling(ref) == ref.key \notin TargetLabelKeys
DanglingOfTarget ==
    [n \in 1..Len(SelectSeq(TargetRefs, IsDangling)) |->
         [Issue("dangling_reference") EXCEPT
              !.key = SelectSeq(TargetRefs, IsDangling)[n].key,
              !.line = SelectSeq(TargetRefs, IsDangling)[n].line]]

\* sources to compare the actual one with: none, and one holding every label
OtherSources ==
    {EmptyContent,
     [EmptyContent EXCEPT
          !.labels = <<[key |-> "a", line |-> 0], [key |-> "b", line |-> 1]>>,
          !.references = <<[key |-> "b", line |-> 0]>>]}

DanglingIn(rs) == SelectSeq(rs, LAMBDA r : r.type = "dangling_reference")

C13_DanglingOnlyTarget ==
    RefsChecked =>
        /\ IssuesOfType("dangling_reference") = DanglingOfTarget
        /\ \A other \in OtherSources :
               \A missing \in Orders(MissingLabels(other, target_blocks)),
                  extra \in Orders(ExtraLabels(other, target_blocks)) :
                   DanglingIn(check_reference_integrity(other, target_blocks,
                                                        missing, extra))
                       = IssuesOfType("dangling_reference")

\* the target labels a and refers to a and b; the source labels b
C13_Witness ==
    /\ RefsChecked
    /\ TargetLabelKeys = {"a"}
    /\ TargetRefs = <<[key |-> "a", line |-> 0], [key |-> "b", line |-> 1]>>
    /\ "b" \in KeySet(source_blocks)
    /\ IssuesOfType("dangling_reference")
           = <<[Issue("dangling_reference") EXCEPT !.key = "b", !.line = 1]>>

(***************************************************************************)
(* check_special_block_preservation (src/src/struct_evaluator.py, lines    *)
(* 78-105).  Code blocks and equations are entries as the extractor builds *)
(* them (lists of lines), image paths are strings.                         *)
(***************************************************************************)
MaxBlocks == 2

CodeEntries == {<<LineCodeStart, LineCodeEnd>>, <<LineCodeStart, LineText, LineCodeEnd>>}
EquationLists ==
    {<<>>,
     <<(<<"$x$">>)>>,
     <<(<<LineEqStart, LineEqEnd>>)>>,
     <<(<<"$x$">>), <<LineEqStart, LineEqEnd>>>>,
     <<(<<"$x$">>), <<"$x$">>>>}
ImageLists ==
    {<<>>, <<"f.png">>, <<"g.png">>, <<"f.png", "g.png">>, <<"g.png", "f.png">>,
     <<"f.png", "f.png">>}

BlockInventories ==
    {[EmptyContent EXCEPT !.code_blocks = cs, !.equations = es, !.image_paths = ps] :
         cs \in SeqsUpTo(CodeEntries, MaxBlocks), es \in EquationLists, ps \in ImageLists}

\* one issue record; the fields a type does not carry hold <<>> or -1
BlockIssue(type) ==
    [type |-> type, source_count |-> -1, target_count |-> -1, index |-> -1,
     source_content |-> <<>>, target_content |-> <<>>,
     source_paths |-> <<>>, target_paths |-> <<>>]

RECURSIVE ContentIssues(_, _, _, _)
\* lines 89-91 and 97-99: for i, (s, t) in enumerate(zip(...)), from index j
ContentIssues(type, ss, ts, j) ==
    IF j >= Min(Len(ss), Len(ts)) THEN <<>>
    ELSE (IF ss[j + 1] # ts[j + 1]
          THEN <<[BlockIssue(type) EXCEPT
                      !.index = j, !.source_content = ss[j + 1],
                      !.target_content = ts[j + 1]]>>
          ELSE <<>>)
         \o ContentIssues(type, ss, ts, j + 1)

CollectionIssuesBoth(count_type, content_type, ss, ts) ==
    (IF Len(ss) # Len(ts)
     THEN <<[BlockIssue(count_type) EXCEPT
                 !.source_count = Len(ss), !.target_count = Len(ts)]>>
     ELSE <<>>)
    \o ContentIssues(content_type, ss, ts, 0)
\* lines 86-91 and 94-99: the count check, else the content check
CollectionIssues(count_type, content_type, ss, ts) ==
    IF Len(ss) # Len(ts)
    THEN <<[BlockIssue(count_type) EXCEPT
                !.source_count = Len(ss), !.target_count = Len(ts)]>>
    ELSE ContentIssues(content_type, ss, ts, 0)

\* set(paths)
PathSet(ps) == {ps[j] : j \in 1..Len(ps)}

\* lines 102-103
ImageIssues(sps, tps) ==
    IF PathSet(sps) # PathSet(tps)
    THEN <<[BlockIssue("image_path_set_mismatch") EXCEPT
                !.source_paths = sps, !.target_paths = tps]>>
    ELSE <<>>

\* lines 78-105
check_special_block_preservation(sb, tb) ==
    CollectionIssues("code_block_count_mismatch", "code_block_content_mismatch",
                     sb.code_blocks, tb.code_blocks)
        \o CollectionIssues("equation_count_mismatch", "equation_content_mismatch",
                            sb.equations, tb.equations)
        \o ImageIssues(sb.image_paths, tb.image_paths)

InitBlocks ==
    /\ pc = "check_blocks"
    /\ source_blocks \in BlockInventories
    /\ target_blocks \in BlockInventories
    /\ results = <<>>
    /\ IdleCmp
    /\ IdleScan
    /\ IdleBatch

\* the call
CheckSpecialBlockPreservation ==
    /\ pc = "check_blocks"
    /\ results' = check_special_block_preservation(source_blocks, target_blocks)
    /\ pc' = "blocks_checked"
    /\ UNCHANGED <<source_blocks, target_blocks, cmpVars, scanVars, batchVars>>

NextBlocks == CheckSpecialBlockPreservation

SpecBlocks == InitBlocks /\ [][NextBlocks]_vars

(***************************************************************************)
(* C17.  In check_special_block_preservation, for code_blocks and          *)
(* likewise for equations: when the two sequences differ in length there   *)
(* is exactly one count-mismatch record and no content-mismatch record;    *)
(* when the lengths are equal there is no count record and one content     *)
(* record for each index whose entries differ.  An image_path_set_mismatch *)
(* record is emitted iff the two path sets differ, so order and            *)
(* multiplicity alone never produce one.                                   *)
(***************************************************************************)
BlocksChecked == pc = "blocks_checked"

CollectionChecked(count_type, content_type, ss, ts) ==
    LET counts == IssuesOfType(count_type)
        contents == IssuesOfType(content_type)
        differing == IndicesWhere(LAMBDA j : ss[j + 1] # ts[j + 1], 0, Len(ss))
    IN  IF Len(ss) # Len(ts)
        THEN /\ Len(counts) = 1
             /\ counts[1].source_count = Len(ss)
             /\ counts[1].target_count = Len(ts)
             /\ contents = <<>>
        ELSE /\ counts = <<>>
             /\ Len(contents) = Len(differing)
             /\ \A n \in 1..Len(differing) :
                    /\ contents[n].index = differing[n]
                    /\ contents[n].source_content = ss[differing[n] + 1]
                    /\ contents[n].target_content = ts[differing[n] + 1]

SamePaths(ps, qs) == \A x \in {"f.png", "g.png"} :
                         (\E j \in 1..Len(ps) : ps[j] = x) <=> (\E j \in 1..Len(qs) : qs[j] = x)

C17_CountSuppressesContent ==
    BlocksChecked =>
        /\ CollectionChecked("code_block_count_mismatch", "code_block_content_mismatch",
                             source_blocks.code_blocks, target_blocks.code_blocks)
        /\ CollectionChecked("equation_count_mismatch", "equation_content_mismatch",
                             source_blocks.equations, target_blocks.equations)
        /\ Len(IssuesOfType("image_path_set_mismatch"))
               = (IF SamePaths(source_blocks.image_paths, target_blocks.image_paths)
                  THEN 0 ELSE 1)

\* two code blocks against one that differs from the first; equations of equal
\* number differing at index 1; the same image paths in another order
C17_Witness ==
    /\ BlocksChecked
    /\ Len(source_blocks.code_blocks) = 2 /\ Len(target_blocks.code_blocks) = 1
    /\ source_blocks.code_blocks[1] # target_blocks.code_blocks[1]
    /\ Len(source_blocks.equations) = 2 /\ Len(target_blocks.equations) = 2
    /\ source_blocks.equations[2] # target_blocks.equations[2]
    /\ source_blocks.image_paths = <<"f.png", "g.png">>
    /\ target_blocks.image_paths = <<"g.png", "f.png">>
    /\ Len(results) = 2
    /\ results[1].type = "code_block_count_mismatch"
    /\ results[2].type = "equation_content_mismatch" /\ results[2].index = 1

(***************************************************************************)
(* C14.  extract_special_blocks on a readable file with a tag that is not  *)
(* 'latex', 'markdown' or 'myst' returns, and returns an inventory whose   *)
(* five collections are empty, whatever the file holds; the                *)
(* block-preservation and reference-integrity checks of two such           *)
(* inventories report nothing.                                             *)
(***************************************************************************)
UnknownFormat == doc_format \notin {"latex", "markdown", "myst"}

C14_UnknownFormatEmpty ==
    (pc \in {"extracted", "scan", "markdown"} /\ UnknownFormat) =>
        /\ pc = "extracted"
        /\ content.code_blocks = <<>>
        /\ content.equations = <<>>
        /\ content.image_paths = <<>>
        /\ content.labels = <<>>
        /\ content.references = <<>>
        /\ check_special_block_preservation(content, content) = <<>>
        /\ \A missing \in Orders(MissingLabels(content, content)),
              extra \in Orders(ExtraLabels(content, content)) :
               check_reference_integrity(content, content, missing, extra) = <<>>

\* a file of LaTeX under the tag 'LaTeX': a label, a reference, a code block
C14_Witness ==
    /\ pc = "extracted"
    /\ doc_format = "LaTeX"
    /\ lines = <<LineLabel, LineRef, LineCodeOneLine>>
    /\ content = EmptyContent

(***************************************************************************)
(* C15.  compare_pandoc_asts never raises: for two nodes of the same kind  *)
(* whose content has not the shape the kind implies, the kind's check is   *)
(* skipped and the call returns a list.                                    *)
(* Refuted: lines 39-50 and 69-72 subscript node['c'] without a check, and *)
(* line 25 calls .get on every element of a content list.                  *)
(***************************************************************************)
C15_NeverRaises == Compared => ~raised

(***************************************************************************)
(* C18.  In the LaTeX scan labels, references, image paths and inline math *)
(* are recorded only from lines processed in the normal state: a line read *)
(* while inside a code or equation block (its closing delimiter included)  *)
(* or holding an opening delimiter changes none of the four.  Hence, at    *)
(* the return, a label that stands only on lines opening an equation block *)
(* is not in labels, and each recorded reference is reported as a          *)
(* dangling_reference by check_reference_integrity.                        *)
(***************************************************************************)
InlineMathOf(c) == SelectSeq(c.equations, IsInlineMath)

\* the line about to be read is inside a block or opens one
NotNormal ==
    \/ in_code
    \/ in_equation
    \/ CodeBlockStart(lines[i + 1])
    \/ EquationBlockStart(lines[i + 1])

ReadsNotNormalLine == pc = "scan" /\ i < Len(lines) /\ i' = i + 1 /\ NotNormal

NoLabelLine == \A j \in 1..Len(lines) : lines[j] # LineLabel

DanglingOfContent ==
    DanglingIn(check_reference_integrity(content, content, <<>>, <<>>))

C18_OnlyNormalLines ==
    /\ [][ReadsNotNormalLine =>
              /\ content'.labels = content.labels
              /\ content'.references = content.references
              /\ content'.image_paths = content.image_paths
              /\ InlineMathOf(content') = InlineMathOf(content)]_vars
    /\ []((Extracted /\ NoLabelLine) =>
              /\ content.labels = <<>>
              /\ DanglingOfContent
                     = [n \in 1..Len(content.references) |->
                            [Issue("dangling_reference") EXCEPT
                                 !.key = content.references[n].key,
                                 !.line = content.references[n].line]])

\* an equation block labelled a on its opening line, then a reference to a
C18_Witness ==
    /\ Extracted
    /\ lines = <<LineEqStartLabel, LineEqEnd, LineRef>>
    /\ content.labels = <<>>
    /\ content.references = <<[key |-> "a", line |-> 2], [key |-> "b", line |-> 2]>>
    /\ DanglingOfContent[1]
           = [Issue("dangling_reference") EXCEPT !.key = "a", !.line = 2]

(***************************************************************************)
(* main and evaluate_document_pair (src/run_evaluation.py) with the        *)
(* switches of src/config.py: one language pair, one format, the three     *)
(* structural checks on, the visual diff off.  A source file is modelled   *)
(* by what the run meets for it: whether the translated file exists, what  *)
(* get_pandoc_ast returns for the two files (None on a failed conversion,  *)
(* else pandoc's document object, a dict without 't' and 'c'), and whether *)
(* the two raw files can be read and decoded by extract_special_blocks.    *)
(***************************************************************************)
MaxFiles == 2

RUN_AST_COMPARISON == TRUE
RUN_PATTERN_MATCHING == TRUE
RUN_REF_INTEGRITY == TRUE
RUN_VISUAL_DIFF == FALSE

\* json.loads of pandoc's JSON output: {"pandoc-api-version", "meta", "blocks"}
PandocDocument == NodeNoC("")
\* get_pandoc_ast: None after a caught exception (lines 76-78), else the document
AstOutcomes == {NoneV, PandocDocument}

SourceInventory ==
    [EmptyContent EXCEPT
         !.code_blocks = <<(<<LineFence, LineText, LineFence>>)>>,
         !.equations = <<(<<"x">>)>>]
TranslatedInventory == [EmptyContent EXCEPT !.equations = <<(<<"x">>), <<"x">>>>]

\* extract_special_blocks: open/readlines of lines 92-93 raise (OSError,
\* UnicodeDecodeError) or the inventory is returned
RawOutcomes(inventory) ==
    {[readable |-> FALSE, blocks |-> EmptyContent],
     [readable |-> TRUE, blocks |-> inventory]}

SourceFiles ==
    [translated_exists : BOOLEAN,
     human_ref : BOOLEAN,
     source_ast : AstOutcomes,
     translated_ast : AstOutcomes,
     source_raw : RawOutcomes(SourceInventory),
     translated_raw : RawOutcomes(TranslatedInventory)]

\* results['structural_checks']: its keys and the three counts (-1: no key)
NoStructuralChecks ==
    [keys |-> {}, ast_diff_count |-> -1, special_block_issues_count |-> -1,
     reference_issues_count |-> -1]

\* what a call leaves: an exception, or the dict `results`
PairRaised == [raised |-> TRUE, document_id |-> -1, nl_metrics |-> FALSE,
               structural_checks |-> NoStructuralChecks]
PairResult(doc_id, nl, checks) ==
    [raised |-> FALSE, document_id |-> doc_id, nl_metrics |-> nl,
     structural_checks |-> checks]

\* lines 58-70: the three checks, run when both ASTs are truthy
StructuralChecks(f, missing, extra) ==
    LET ast_diffs == compare_pandoc_asts(f.source_ast, f.translated_ast)
        block_preservation ==
            check_special_block_preservation(f.source_raw.blocks, f.translated_raw.blocks)
        ref_integrity ==
            check_reference_integrity(f.source_raw.blocks, f.translated_raw.blocks,
                                      missing, extra)
    IN  [raised |-> RUN_AST_COMPARISON /\ ast_diffs.raised,
         checks |->
             [keys |->
                  (IF RUN_AST_COMPARISON
                   THEN {"ast_differences", "ast_diff_count"} ELSE {})
                  \cup (IF RUN_PATTERN_MATCHING
                        THEN {"special_block_preservation", "special_block_issues_count"}
                        ELSE {})
                  \cup (IF RUN_REF_INTEGRITY
                        THEN {"reference_integrity", "reference_issues_count"}
                        ELSE {}),
              ast_diff_count |->
                  IF RUN_AST_COMPARISON THEN Len(ast_diffs.diffs) ELSE -1,
              special_block_issues_count |->
                  IF RUN_PATTERN_MATCHING THEN Len(block_preservation) ELSE -1,
              reference_issues_count |->
                  IF RUN_REF_INTEGRITY THEN Len(ref_integrity) ELSE -1]]

\* lines 7-111: evaluate_document_pair; nl_metrics is populated when a human
\* reference is at hand (lines 26-47); the visual diff is off (lines 78-108)
evaluate_document_pair(f, doc_id, missing, extra) ==
    IF ~(RUN_AST_COMPARISON \/ RUN_PATTERN_MATCHING \/ RUN_REF_INTEGRITY)
    THEN PairResult(doc_id, f.human_ref, NoStructuralChecks)
    \* lines 52-56: both ASTs, then both inventories, outside any try
    ELSE IF ~f.source_raw.readable \/ ~f.translated_raw.readable THEN PairRaised
    ELSE IF ~IsNone(f.source_ast) /\ ~IsNone(f.translated_ast)
    THEN IF StructuralChecks(f, missing, extra).raised THEN PairRaised
         ELSE PairResult(doc_id, f.human_ref, StructuralChecks(f, missing, extra).checks)
    \* lines 71-72: logged, nothing recorded
    ELSE PairResult(doc_id, f.human_ref, NoStructuralChecks)

InitBatch ==
    /\ pc = "main"
    /\ source_files \in SeqsUpTo(SourceFiles, MaxFiles)
    /\ file_index = 0
    /\ all_results = <<>>
    /\ IdleCmp
    /\ IdleScan
    /\ IdleRef

\* lines 125-142: one iteration of the loop over source_files
EvaluatePair ==
    /\ pc = "main"
    /\ file_index < Len(source_files)
    /\ LET f == source_files[file_index + 1]
       IN  IF ~f.translated_exists
           \* lines 137-139: continue
           THEN /\ pc' = pc
                /\ all_results' = all_results
                /\ file_index' = file_index + 1
           ELSE \E missing \in Orders(MissingLabels(f.source_raw.blocks,
                                                    f.translated_raw.blocks)),
                   extra \in Orders(ExtraLabels(f.source_raw.blocks,
                                                f.translated_raw.blocks)) :
                    LET result == evaluate_document_pair(f, file_index, missing, extra)
                    IN  IF result.raised
                        \* nothing in main catches: the run ends with a traceback
                        THEN /\ pc' = "aborted"
                             /\ all_results' = all_results
                             /\ file_index' = file_index
                        ELSE /\ pc' = pc
                             /\ all_results' = Append(all_results, result)
                             /\ file_index' = file_index + 1
    /\ UNCHANGED <<source_files, cmpVars, scanVars, refVars>>

\* lines 144-171: the loop is over, the reports are written
SaveReports ==
    /\ pc = "main"
    /\ file_index = Len(source_files)
    /\ pc' = "done"
    /\ UNCHANGED <<batchVars, cmpVars, scanVars, refVars>>

NextBatch == EvaluatePair \/ SaveReports

SpecBatch == InitBatch /\ [][NextBatch]_vars

(***************************************************************************)
(* C16.  A failure while evaluating one document pair never aborts the     *)
(* batch: main evaluates every remaining pair and ends with one result for *)
(* each source file that has a translation; after a parse failure the      *)
(* pair's structural_checks holds no key at all.                           *)
(* Refuted: extract_special_blocks is called at lines 55-56 outside any    *)
(* try, and main calls evaluate_document_pair at line 141 outside any try. *)
(***************************************************************************)
Translated == {j \in 1..Len(source_files) : source_files[j].translated_exists}
ParseFailed(f) == IsNone(f.source_ast) \/ IsNone(f.translated_ast)

C16_BatchNeverAborts ==
    /\ pc # "aborted"
    /\ pc = "done" => Len(all_results) = Cardinality(Translated)
    /\ \A n \in 1..Len(all_results) :
           ParseFailed(source_files[all_results[n].document_id + 1])
               => all_results[n].structural_checks.keys = {}

====
